---- MODULE Spec2Model ----
(***************************************************************************)
(* Model of the surreality-logging repository: two packages that configure *)
(* process-wide logging.                                                   *)
(*   pkg = "stdlib" : src/surreality_logging/__init__.py  (logging module) *)
(*   pkg = "loguru" : src/python/surreality_logging/__init__.py (Loguru,   *)
(*                    with interception of standard-library loggers)       *)
(* Both packages carry the same import name, so a process holds one.       *)
(***************************************************************************)
EXTENDS Integers, Sequences, FiniteSets, TLC

VARIABLES
  pkg,      \* which of the two packages the process imported
  isatty,   \* sys.stdout.isatty()
  lg,       \* the process-wide logging state (stdlib loggers, Loguru handlers)
  cfg,      \* the latest configure_logging call: its arguments and outcome
  calls,    \* how many configure_logging calls were made
  icp,      \* the setup calls made after the latest configure_logging
  out,      \* what the latest emission wrote to each destination
  rot,      \* the log directory, the open file streams and the rotation policy
  th,       \* each thread's position in the emission it is making
  lock,     \* the holder of each handler's lock
  console,  \* the characters written to sys.stdout by the threads
  fm,       \* a record and the StandardizedFormatter.format call on it
  fc        \* a record and each thread's format call on it

cfgVars == <<pkg, isatty, lg, cfg, calls, icp, out>>

concVars == <<th, lock, console, fm, fc>>

vars == <<cfgVars, rot, concVars>>

\* ------------------------------------------------------------------ bounds

MaxCalls == 2
MaxIntercepts == 1

\* The rotation model: max_bytes ranges over 2..MaxMaxBytes, backup_count
\* over 0..MaxBackups, a line's length over 1..MaxLineLen, and a run writes
\* at most MaxWrites records.
MaxMaxBytes == 3
MaxBackups == 2
MaxLineLen == 2
MaxWrites == 4

\* The concurrent model: each thread emits at most MaxEmits records.
MaxEmits == 1

\* The formatter model: a record is formatted at most MaxFormats times.
MaxFormats == 3

\* ------------------------------------------------------------------ levels

\* The five level names of logging (and of Loguru, with the same numbers).
LevelNames == {"DEBUG", "INFO", "WARNING", "ERROR", "CRITICAL"}

\* A level name that neither logging nor Loguru knows.
BadLevel == "VERBOSE"

LevelArgs == LevelNames \cup {BadLevel}

\* logging.DEBUG .. logging.CRITICAL; NOTSET is 0.
LevelNo(name) ==
  CASE name = "DEBUG" -> 10
    [] name = "INFO" -> 20
    [] name = "WARNING" -> 30
    [] name = "ERROR" -> 40
    [] name = "CRITICAL" -> 50
    [] OTHER -> 0

\* ------------------------------------------------------------------ loggers

UvicornNames == {"uvicorn", "uvicorn.error", "uvicorn.access"}

\* The order in which both packages walk the uvicorn loggers.
UvicornOrder == <<"uvicorn", "uvicorn.error", "uvicorn.access">>

\* An application logger, the uvicorn loggers, and a library logger that a
\* caller may name in additional_loggers (the test's "test_logger").
LoggerNames == {"root", "app", "test_logger"} \cup UvicornNames

\* The logging module's hierarchy: dotted names hang under their prefix.
Parent(n) ==
  IF n \in {"uvicorn.error", "uvicorn.access"} THEN "uvicorn" ELSE "root"

\* A logger followed by its ancestors up to the root.
Chain(n) ==
  IF n = "root" THEN <<"root">>
  ELSE IF Parent(n) = "root" THEN <<n, "root">>
  ELSE <<n, Parent(n), "root">>

\* ------------------------------------------------------------------ state

ConsoleHandler(level) == [kind |-> "console", level |-> level]
FileHandler(level) == [kind |-> "file", level |-> level]
InterceptHandler == [kind |-> "intercept", level |-> 0]

\* A Loguru handler: markup says whether its format string holds colour tags.
Sink(kind, level, colorize, markup) ==
  [kind |-> kind, level |-> level, colorize |-> colorize, markup |-> markup]

\* A freshly imported logging module (root at WARNING, no handlers) and a
\* freshly imported Loguru (one handler on stderr at DEBUG).
InitLogging ==
  [level     |-> [n \in LoggerNames |-> IF n = "root" THEN 30 ELSE 0],
   handlers  |-> [n \in LoggerNames |-> <<>>],
   propagate |-> [n \in LoggerNames |-> TRUE],
   sinks     |-> <<Sink("stderr", 10, FALSE, TRUE)>>]

NoOut == [by |-> "none", name |-> "", level |-> "",
          console |-> <<>>, file |-> <<>>, stderr |-> 0]

NoCfg == [ok |-> FALSE, level |-> "", log_file |-> FALSE, hook |-> FALSE,
          additional |-> <<>>, colorize |-> FALSE, later |-> FALSE]

\* ------------------------------------------------------------------ formatting

\* The keys of StandardizedFormatter.COLORS.
ColorKeys == {"DEBUG", "INFO", "WARNING", "ERROR", "CRITICAL"}

\* A level name as it is displayed: bare, or wrapped in an ANSI colour code
\* and the reset code.
Plain(name) == [name |-> name, ansi |-> FALSE]
Colored(name) == [name |-> name, ansi |-> TRUE]

\* StandardizedFormatter.format's choice of the displayed level name: coloured
\* when sys.stdout is a terminal and the level name has a colour.
ColoredLevelname(levelname, tty) ==
  IF tty /\ levelname.ansi = FALSE /\ levelname.name \in ColorKeys
  THEN Colored(levelname.name)
  ELSE levelname

\* The line StandardizedFormatter.format returns for a record of this level:
\* the only part of a line that varies here is the displayed level name.
StdLine(level, tty) ==
  LET shown == ColoredLevelname(Plain(level), tty)
  IN  [level |-> level, ansi |-> shown.ansi]

\* The line a Loguru handler writes: colour tags of the format become ANSI
\* codes when the handler colorizes, and are stripped otherwise.
LoguruLine(level, sink) ==
  [level |-> level, ansi |-> sink.colorize /\ sink.markup]

\* A level name that is not a key of COLORS (a level without a registered
\* name).
OtherLevelname == "Level 5"

\* No record being formatted.
NoFormat ==
  [record |-> [levelname |-> Plain(""), fails |-> FALSE],
   pc |-> "idle",
   levelname |-> Plain(""), colored |-> Plain(""), original |-> Plain(""),
   formatted |-> Plain(""),
   before |-> Plain(""), last |-> "none", outs |-> <<>>]

\* format without its line 61: the record keeps the displayed level name.
KeepLevelname(record, original) == record

\* record.levelname = original_levelname.
RestoreLevelname(record, original) == [record EXCEPT !.levelname = original]

\* logging.Formatter.format with '[%(levelname)s]' in the format string: of
\* the returned line, the part that is not fixed by the record's other
\* fields is the level name as the record holds it.
SuperFormat(record) == record.levelname

\* ------------------------------------------------------------------ emission

Nothing == [console |-> <<>>, file |-> <<>>, stderr |-> 0]

Both(a, b) == [console |-> a.console \o b.console,
               file    |-> a.file \o b.file,
               stderr  |-> a.stderr + b.stderr]

\* Loguru's logger.log: every handler whose level the record reaches writes
\* one line to its sink.
RECURSIVE LoguruLog(_, _)
LoguruLog(sinks, level) ==
  IF sinks = <<>> THEN Nothing
  ELSE LET s == Head(sinks)
           line == LoguruLine(level, s)
           this == IF LevelNo(level) < s.level THEN Nothing
                   ELSE CASE s.kind = "console" -> [Nothing EXCEPT !.console = <<line>>]
                          [] s.kind = "file" -> [Nothing EXCEPT !.file = <<line>>]
                          [] OTHER -> [Nothing EXCEPT !.stderr = 1]
       IN  Both(this, LoguruLog(Tail(sinks), level))

\* Handler.handle for each handler of a list, in order: a console or file
\* handler formats with the shared StandardizedFormatter and writes the line,
\* an InterceptHandler re-emits the record through Loguru.
RECURSIVE RunHandlers(_, _, _, _)
RunHandlers(hs, sinks, tty, level) ==
  IF hs = <<>> THEN Nothing
  ELSE LET h == Head(hs)
           this == IF LevelNo(level) < h.level THEN Nothing
                   ELSE CASE h.kind = "console" ->
                               [Nothing EXCEPT !.console = <<StdLine(level, tty)>>]
                          [] h.kind = "file" ->
                               [Nothing EXCEPT !.file = <<StdLine(level, tty)>>]
                          [] OTHER -> LoguruLog(sinks, level)
       IN  Both(this, RunHandlers(Tail(hs), sinks, tty, level))

\* Logger.getEffectiveLevel: the first level set on the logger or an ancestor.
EffectiveLevel(st, n) ==
  LET c == Chain(n)
      set == {i \in 1..Len(c) : st.level[c[i]] # 0}
  IN  IF set = {} THEN 0
      ELSE st.level[c[CHOOSE i \in set : \A j \in set : i <= j]]

\* Logger.callHandlers: the handlers of the logger and of its ancestors, up to
\* and including the first logger that does not propagate.
HandlersFor(st, n) ==
  LET c == Chain(n)
      stop == {i \in 1..Len(c) : ~st.propagate[c[i]]}
      last == IF stop = {} THEN Len(c)
              ELSE CHOOSE i \in stop : \A j \in stop : i <= j
      RECURSIVE upto(_)
      upto(i) == IF i > last THEN <<>> ELSE st.handlers[c[i]] \o upto(i + 1)
  IN  upto(1)

\* Logger.log on the standard-library logger n: dropped below the effective
\* level; with no handler anywhere, logging's last resort writes WARNING and
\* above to stderr.
StdEmit(st, tty, n, level) ==
  IF LevelNo(level) < EffectiveLevel(st, n) THEN Nothing
  ELSE LET hs == HandlersFor(st, n)
       IN  IF hs = <<>>
           THEN [Nothing EXCEPT !.stderr = IF LevelNo(level) >= 30 THEN 1 ELSE 0]
           ELSE RunHandlers(hs, st.sinks, tty, level)

\* ------------------------------------------------------------------ setup

\* logging's _checkLevel and Loguru's logger.add both reject a level name they
\* do not know (ValueError).
KnownLevel(level) == level \in LevelNames

\* getattr(logging, logger_level.upper(), logging.INFO)
GetattrLevel(level) == IF level \in LevelNames THEN LevelNo(level) ELSE 20

\* SetLogger with propagation left on.
SetLoggerPropagating(st, n, level, handlers) ==
  [st EXCEPT !.level[n] = level, !.handlers[n] = handlers]

SetLogger(st, n, level, handlers) ==
  [st EXCEPT !.level[n] = level, !.handlers[n] = handlers, !.propagate[n] = FALSE]

\* configure_uvicorn_logging: each uvicorn logger gets its own console handler
\* (and file handler), with no level of their own, at the global level and
\* without propagation; uvicorn.access is then raised to WARNING.
RECURSIVE ConfigureUvicornLoop(_, _, _, _)
ConfigureUvicornLoop(st, names, level, log_file) ==
  IF names = <<>> THEN st
  ELSE ConfigureUvicornLoop(
         SetLogger(st, Head(names), LevelNo(level),
                   <<ConsoleHandler(0)>> \o (IF log_file THEN <<FileHandler(0)>> ELSE <<>>)),
         Tail(names), level, log_file)

\* ConfigureUvicornLogging without the closing setLevel(WARNING).
ConfigureUvicornNoFloor(st, level, log_file) ==
  ConfigureUvicornLoop(st, UvicornOrder, level, log_file)

ConfigureUvicornLogging(st, level, log_file) ==
  LET looped == ConfigureUvicornLoop(st, UvicornOrder, level, log_file)
  IN  [looped EXCEPT !.level["uvicorn.access"] = 30]

\* ConfigureRoot with root_logger.setLevel left out and the console handler
\* left at its default level.
ConfigureRootLevelUnset(st, level, log_file) ==
  [st EXCEPT !.handlers["root"] =
               <<ConsoleHandler(0)>>
               \o (IF log_file THEN <<FileHandler(0)>> ELSE <<>>)]

\* ConfigureRoot with root_logger.handlers.clear() left out.
ConfigureRootAppend(st, level, log_file) ==
  [st EXCEPT !.level["root"] = LevelNo(level),
             !.handlers["root"] =
               @ \o <<ConsoleHandler(LevelNo(level))>>
               \o (IF log_file THEN <<FileHandler(LevelNo(level))>> ELSE <<>>)]

\* The root logger after configure_logging of the logging package: its level
\* set, its handlers cleared, then a console handler (and a file handler) at
\* the level added.
ConfigureRoot(st, level, log_file) ==
  [st EXCEPT !.level["root"] = LevelNo(level),
             !.handlers["root"] =
               <<ConsoleHandler(LevelNo(level))>>
               \o (IF log_file THEN <<FileHandler(LevelNo(level))>> ELSE <<>>)]

\* configure_logging of the logging package. console_handler.setLevel raises
\* on an unknown level name before anything is changed.
ConfigureStd(st, a) ==
  IF ~KnownLevel(a.level) THEN [ok |-> FALSE, st |-> st]
  ELSE LET rooted == ConfigureRoot(st, a.level, a.log_file)
       IN  [ok |-> TRUE,
            st |-> IF a.hook THEN ConfigureUvicornLogging(rooted, a.level, a.log_file)
                   ELSE rooted]

\* The (name, level) pairs intercept_standard_logging configures, in order: the
\* uvicorn defaults, then the caller's additional loggers (a bare name takes
\* the global level; "" stands for a bare name).
LoggersToConfigure(level, additional) ==
  <<[name |-> "uvicorn", level |-> level],
    [name |-> "uvicorn.error", level |-> level],
    [name |-> "uvicorn.access", level |-> "WARNING"]>>
  \o [i \in 1..Len(additional) |->
        IF additional[i].level = ""
        THEN [name |-> additional[i].name, level |-> level]
        ELSE additional[i]]

RECURSIVE InterceptLoop(_, _)
InterceptLoop(st, specs) ==
  IF specs = <<>> THEN st
  ELSE InterceptLoop(
         SetLogger(st, Head(specs).name, GetattrLevel(Head(specs).level),
                   <<InterceptHandler>>),
         Tail(specs))

\* intercept_standard_logging: basicConfig(force=True) replaces the root
\* logger's handlers by one InterceptHandler and sets the root level to 0;
\* then every listed logger gets one InterceptHandler, no propagation, and
\* its level.
InterceptStandardLogging(st, level, additional) ==
  LET based == [st EXCEPT !.level["root"] = 0,
                          !.handlers["root"] = <<InterceptHandler>>]
  IN  InterceptLoop(based, LoggersToConfigure(level, additional))

\* The handlers configure_logging of the Loguru package adds after
\* logger.remove(): the console at the level, and the file when asked for.
LoguruSinks(a) ==
  <<Sink("console", LevelNo(a.level), a.colorize, a.colorize)>>
  \o (IF a.log_file THEN <<Sink("file", LevelNo(a.level), FALSE, FALSE)>> ELSE <<>>)

\* configure_logging of the Loguru package. logger.add raises on an unknown
\* level name, after logger.remove() has removed every handler.
ConfigureLoguru(st, a) ==
  IF ~KnownLevel(a.level) THEN [ok |-> FALSE, st |-> [st EXCEPT !.sinks = <<>>]]
  ELSE LET sunk == [st EXCEPT !.sinks = LoguruSinks(a)]
       IN  [ok |-> TRUE,
            st |-> IF a.hook THEN InterceptStandardLogging(sunk, a.level, a.additional)
                   ELSE sunk]

ConfigureLogging(p, st, a) ==
  IF p = "stdlib" THEN ConfigureStd(st, a) ELSE ConfigureLoguru(st, a)

\* get_logger(name).log(level, ...) of either package: the logging package
\* returns logging.getLogger(name), the Loguru package its one logger.
GetLoggerEmit(p, st, tty, n, level) ==
  IF p = "stdlib" THEN StdEmit(st, tty, n, level) ELSE LoguruLog(st.sinks, level)

\* The closing logger.info / logging.info of configure_logging.
SetupInfo(p, st, tty) == GetLoggerEmit(p, st, tty, "root", "INFO")

\* ------------------------------------------------------------------ files

\* The file handlers that may hold the log file open: the root logger's and
\* each uvicorn logger's RotatingFileHandler (logging package), or the one
\* Loguru file handler.
FileOwners == {"loguru", "root"} \cup UvicornNames

\* Slot 0 is the log file itself, slot i its i-th backup: app.log.i for the
\* RotatingFileHandler, the i-th most recent rotated file for Loguru.
Slots == 0..(MaxBackups + 2)

\* A line of a record, as the characters written: its text, then the
\* terminator "\n".
Line(rid, len) ==
  [i \in 1..len |-> [rid |-> rid, part |-> IF i = len THEN "nl" ELSE "msg"]]

\* No log file configured. A file is an index into data (its content); 0
\* stands for no file, in a slot or as a handler's stream.
NoRot ==
  [phase |-> "fresh",
   par |-> [max_bytes |-> 0, backup_count |-> 0, hook |-> FALSE, info |-> FALSE],
   fs |-> [i \in Slots |-> 0],
   data |-> <<>>,
   stream |-> [h \in FileOwners |-> 0],
   rotations |-> 0,
   writes |-> 0]

\* open(log_file, 'a'): the file at the path, created empty when absent.
OpenStream(rs, h) ==
  IF rs.fs[0] # 0 THEN [rs EXCEPT !.stream[h] = rs.fs[0]]
  ELSE [rs EXCEPT !.data = Append(@, <<>>),
                  !.fs[0] = Len(rs.data) + 1,
                  !.stream[h] = Len(rs.data) + 1]

CloseStream(rs, h) == [rs EXCEPT !.stream[h] = 0]

\* stream.write(text): the characters are appended to the file the stream
\* holds, wherever the directory now lists it.
WriteStream(rs, h, text) ==
  [rs EXCEPT !.data[rs.stream[h]] = @ \o text]

\* os.rename(src, dst) on slots; the destination is replaced.
Rename(fs, src, dst) == [fs EXCEPT ![dst] = fs[src], ![src] = 0]

\* RotatingFileHandler.shouldRollover: the file's size plus the line reaches
\* maxBytes.
ShouldRollover(rs, h, text) ==
  /\ rs.par.max_bytes > 0
  /\ Len(rs.data[rs.stream[h]]) + Len(text) >= rs.par.max_bytes

\* doRollover's loop: for i = backupCount-1 down to 1, app.log.i is renamed to
\* app.log.(i+1) when it exists.
RECURSIVE ShiftFrom(_, _)
ShiftFrom(fs, i) ==
  IF i < 1 THEN fs
  ELSE ShiftFrom(IF fs[i] # 0 THEN Rename(fs, i, i + 1) ELSE fs, i - 1)

\* ShiftBackups with the loop started one slot too high.
ShiftBackupsFromTop(rs) ==
  IF rs.par.backup_count > 0
  THEN [rs EXCEPT !.fs = ShiftFrom(rs.fs, rs.par.backup_count)]
  ELSE rs

ShiftBackups(rs) ==
  IF rs.par.backup_count > 0
  THEN [rs EXCEPT !.fs = ShiftFrom(rs.fs, rs.par.backup_count - 1)]
  ELSE rs

\* doRollover's end: app.log.1 is removed when it exists ...
RemoveFirstBackup(rs) ==
  IF rs.par.backup_count > 0 THEN [rs EXCEPT !.fs[1] = 0] ELSE rs

\* ... and self.rotate(baseFilename, app.log.1) renames the log file to it
\* when the log file exists.
RotateFile(rs) ==
  IF rs.par.backup_count > 0 /\ rs.fs[0] # 0
  THEN [rs EXCEPT !.fs = Rename(rs.fs, 0, 1), !.rotations = @ + 1]
  ELSE rs

RotateBase(rs) == RotateFile(RemoveFirstBackup(rs))

\* RotatingFileHandler.doRollover.
DoRollover(rs, h) ==
  OpenStream(RotateBase(ShiftBackups(CloseStream(rs, h))), h)

\* RotatingFileHandler.emit.
RotatingEmit(rs, h, text) ==
  LET opened == IF rs.stream[h] = 0 THEN OpenStream(rs, h) ELSE rs
      rolled == IF ShouldRollover(opened, h, text) THEN DoRollover(opened, h)
                ELSE opened
  IN  WriteStream(rolled, h, text)

\* Loguru's size rotation: the file's size plus the message exceeds the limit.
LoguruShouldRotate(rs, text) ==
  Len(rs.data[rs.stream["loguru"]]) + Len(text) > rs.par.max_bytes

\* Loguru's retention=backup_count: of the rotated files only the
\* backup_count most recent are kept.
Retain(fs, keep) == [i \in Slots |-> IF i > keep THEN 0 ELSE fs[i]]

\* Loguru's FileSink._terminate_file(is_rotating=True): the file is closed,
\* renamed after its creation time and zipped, which makes it the most recent
\* rotated file; retention is applied; a new file is created.
RECURSIVE AgeFrom(_, _)
AgeFrom(fs, i) ==
  IF i < 0 THEN fs
  ELSE AgeFrom(IF fs[i] # 0 THEN Rename(fs, i, i + 1) ELSE fs, i - 1)

LoguruRotate(rs) ==
  LET closed == CloseStream(rs, "loguru")
      aged == [closed EXCEPT !.fs = Retain(AgeFrom(closed.fs, MaxBackups), rs.par.backup_count),
                             !.rotations = @ + 1]
  IN  OpenStream(aged, "loguru")

\* Loguru's FileSink.write.
LoguruFileWrite(rs, text) ==
  LET rolled == IF LoguruShouldRotate(rs, text) THEN LoguruRotate(rs) ELSE rs
  IN  WriteStream(rolled, "loguru", text)

\* The files the directory lists or a handler holds open; the content of any
\* other (deleted and closed) file is dropped from the state.
Live(rs) ==
  {rs.fs[i] : i \in Slots} \cup {rs.stream[h] : h \in FileOwners}

Forget(rs) ==
  [rs EXCEPT !.data = [f \in 1..Len(rs.data) |->
                         IF f \in Live(rs) THEN rs.data[f] ELSE <<>>]]

\* One record written through the file handler h.
FileEmit(p, rs, h, text) ==
  Forget(IF p = "stdlib" THEN RotatingEmit(rs, h, text)
         ELSE LoguruFileWrite(rs, text))

\* The file handlers a record on logger n reaches when a log file and the
\* uvicorn loggers are configured.
FileOwnerOf(p, hook, n) ==
  IF p = "loguru" THEN "loguru"
  ELSE IF hook /\ n \in UvicornNames THEN n ELSE "root"

\* configure_logging with a log file, in a directory without one: the file
\* handler(s) are opened; "File logging enabled" is logged once the root
\* logger's (or Loguru's) file handler is attached, "Standardized logging
\* configured" at the end (both at INFO, so written when the level lets INFO
\* through).
RECURSIVE OpenAll(_, _)
OpenAll(rs, owners) ==
  IF owners = <<>> THEN rs ELSE OpenAll(OpenStream(rs, Head(owners)), Tail(owners))

ConfigureFiles(p, par, len1, len2) ==
  LET own == IF p = "stdlib" THEN "root" ELSE "loguru"
      rs0 == [NoRot EXCEPT !.phase = "ready", !.par = par]
      rs1 == OpenStream(rs0, own)
      rs2 == IF par.info THEN FileEmit(p, rs1, own, Line(0, len1)) ELSE rs1
      rs3 == IF p = "stdlib" /\ par.hook THEN OpenAll(rs2, UvicornOrder) ELSE rs2
  IN  IF par.info THEN FileEmit(p, rs3, own, Line(0, len2)) ELSE rs3

\* ------------------------------------------------------------------ threads

Threads == {"t1", "t2"}

\* A handler is named by its kind and by the logger that owns it ("loguru"
\* for the Loguru handlers): every handler has a lock of its own.
HandlerIds == {"console", "file", "intercept"} \X FileOwners

Idle == [pc |-> "idle", rid |-> 0, hs |-> <<>>, pending |-> <<>>,
         seen |-> FALSE, outer |-> <<>>, done |-> 0]

NoThreads == [t \in Threads |-> Idle]

NoLocks == [h \in HandlerIds |-> "free"]

\* One thread's format call: where it is, its local variables, and what it
\* returned.
NoCall ==
  [pc |-> "idle", levelname |-> Plain(""), colored |-> Plain(""),
   original |-> Plain(""), formatted |-> Plain(""), returned |-> FALSE]

\* No record shared by format calls. initial is the level name the record
\* was made with.
NoCalls ==
  [record |-> [levelname |-> Plain(""), fails |-> FALSE],
   initial |-> Plain(""),
   call |-> [t \in Threads |-> NoCall]]

\* The handlers a record on logger n goes through, in order, when a log file
\* is configured (and, in the logging package, the uvicorn loggers): the
\* owning logger's console handler and file handler. In the Loguru package
\* a record of a standard logger first enters the InterceptHandler it
\* reaches (its own for a uvicorn logger, the root logger's otherwise), which
\* hands it to Loguru's console and file handlers.
HandlersOf(p, n) ==
  IF p = "stdlib"
  THEN <<<<"console", FileOwnerOf(p, TRUE, n)>>, <<"file", FileOwnerOf(p, TRUE, n)>>>>
  ELSE (IF n = "loguru" THEN <<>>
        ELSE <<<<"intercept", IF n \in UvicornNames THEN n ELSE "root">>>>)
       \o <<<<"console", "loguru">>, <<"file", "loguru">>>>

\* The k-th record of thread t.
Rid(t, k) == (IF t = "t1" THEN 0 ELSE MaxEmits) + k

\* A line handed to the stream in two calls: stream.write(msg);
\* stream.write(terminator).
WriteCallsSplit(text) == <<SubSeq(text, 1, Len(text) - 1), <<text[Len(text)]>>>>

\* StreamHandler.emit and Loguru's sinks hand a line to the stream in one
\* write call: stream.write(msg + terminator).
WriteCalls(text) == <<text>>


\* ------------------------------------------------------------------ inputs

AdditionalChoices ==
  { <<>>,
    <<[name |-> "test_logger", level |-> ""]>>,
    <<[name |-> "test_logger", level |-> BadLevel]>>,
    <<[name |-> "uvicorn.access", level |-> "DEBUG"]>> }

StdArgs ==
  [level : LevelArgs, log_file : BOOLEAN, hook : BOOLEAN,
   additional : {<<>>}, colorize : {FALSE}]

LoguruArgs ==
  [level : LevelArgs, log_file : BOOLEAN, hook : BOOLEAN,
   additional : AdditionalChoices, colorize : BOOLEAN]

ArgsOf(p) == IF p = "stdlib" THEN StdArgs ELSE LoguruArgs

\* The arguments of a direct intercept_standard_logging call: the test's call,
\* and the same with a level name logging does not know.
InterceptArgs ==
  [level : {"INFO", BadLevel},
   additional : {<<[name |-> "test_logger", level |-> ""]>>}]

\* An emission is the observation that ends a run: it leaves the logging
\* state as it is, so what may follow it may follow the state before it.
Emitted == out.by \in {"get_logger", "external"}

Stamp(o, by, n, level) ==
  [by |-> by, name |-> n, level |-> level,
   console |-> o.console, file |-> o.file, stderr |-> o.stderr]

\* ------------------------------------------------------------------ actions

Init ==
  /\ pkg \in {"stdlib", "loguru"}
  /\ isatty \in BOOLEAN
  /\ lg = InitLogging
  /\ cfg = NoCfg
  /\ calls = 0
  /\ icp = 0
  /\ out = NoOut
  /\ rot = NoRot
  /\ th = NoThreads /\ lock = NoLocks /\ console = <<>>
  /\ fm = NoFormat
  /\ fc = NoCalls

\* configure_logging(level, ...), to its end or to the exception it raises.
Configure ==
  /\ ~Emitted
  /\ calls < MaxCalls
  /\ \E a \in ArgsOf(pkg) :
       LET r == ConfigureLogging(pkg, lg, a)
       IN  /\ lg' = r.st
           /\ cfg' = [ok |-> r.ok, level |-> a.level, log_file |-> a.log_file,
                      hook |-> a.hook, additional |-> a.additional,
                      colorize |-> a.colorize, later |-> FALSE]
           /\ out' = IF r.ok THEN Stamp(SetupInfo(pkg, r.st, isatty), "setup", "", "INFO")
                     ELSE Stamp(Nothing, "error", "", "")
  /\ calls' = calls + 1
  /\ UNCHANGED <<pkg, isatty, icp, rot, concVars>>

\* A direct intercept_standard_logging(level, additional_loggers) call.
Intercept ==
  /\ ~Emitted
  /\ pkg = "loguru"
  /\ icp < MaxIntercepts
  /\ \E a \in InterceptArgs :
       lg' = InterceptStandardLogging(lg, a.level, a.additional)
  /\ icp' = icp + 1
  /\ cfg' = [cfg EXCEPT !.later = TRUE]
  /\ out' = Stamp(Nothing, "intercept", "", "")
  /\ UNCHANGED <<pkg, isatty, calls, rot, concVars>>

\* One record emitted through get_logger(n).
Emit ==
  /\ ~Emitted
  /\ \E n \in LoggerNames \ {"root"}, level \in LevelNames :
       /\ pkg = "loguru" => n = "app"
       /\ out' = Stamp(GetLoggerEmit(pkg, lg, isatty, n, level), "get_logger", n, level)
  /\ UNCHANGED <<pkg, isatty, lg, cfg, calls, icp, rot, concVars>>

\* One record emitted on the standard-library logger n while the Loguru
\* package is in use (uvicorn's own loggers, a library's logger).
EmitExternal ==
  /\ ~Emitted
  /\ pkg = "loguru"
  /\ \E n \in LoggerNames \ {"root"}, level \in LevelNames :
       out' = Stamp(StdEmit(lg, isatty, n, level), "external", n, level)
  /\ UNCHANGED <<pkg, isatty, lg, cfg, calls, icp, rot, concVars>>

Next == Configure \/ Intercept \/ Emit \/ EmitExternal

Spec == Init /\ [][Next]_vars

\* ------------------------------------------------------------------ rotation

RotParams ==
  [max_bytes : 2..MaxMaxBytes, backup_count : 0..MaxBackups,
   hook : BOOLEAN, info : BOOLEAN]

RotInit ==
  /\ pkg \in {"stdlib", "loguru"}
  /\ isatty = FALSE
  /\ lg = InitLogging
  /\ cfg = NoCfg
  /\ calls = 0
  /\ icp = 0
  /\ out = NoOut
  /\ rot = NoRot
  /\ th = NoThreads /\ lock = NoLocks /\ console = <<>>
  /\ fm = NoFormat
  /\ fc = NoCalls

\* configure_logging(level, log_file=..., max_bytes=..., backup_count=...).
RotConfigure ==
  /\ rot.phase = "fresh"
  /\ \E par \in RotParams, len1, len2 \in 1..MaxLineLen :
       /\ pkg = "loguru" => ~par.hook
       /\ ~par.info => len1 = 1 /\ len2 = 1
       /\ rot' = ConfigureFiles(pkg, par, len1, len2)
  /\ UNCHANGED <<cfgVars, concVars>>

\* One record that passes the levels, emitted on logger n.
RotWrite ==
  /\ rot.phase = "ready"
  /\ rot.writes < MaxWrites
  /\ \E n \in {"app"} \cup UvicornNames, len \in 1..MaxLineLen :
       /\ (pkg = "loguru" \/ ~rot.par.hook) => n = "app"
       /\ rot' = [FileEmit(pkg, rot, FileOwnerOf(pkg, rot.par.hook, n), Line(0, len))
                    EXCEPT !.writes = @ + 1]
  /\ UNCHANGED <<cfgVars, concVars>>

RotNext == RotConfigure \/ RotWrite

SpecRot == RotInit /\ [][RotNext]_vars


\* ------------------------------------------------------------------ concurrency

\* The loggers the threads emit on: in the logging package a module logger
\* (root's handlers) and uvicorn (its own handlers, same stdout, same file);
\* in the Loguru package the Loguru logger and an intercepted module logger.
ConcLoggers(p) == IF p = "stdlib" THEN {"app", "uvicorn"} ELSE {"loguru", "app"}

\* After configure_logging with a log file (and the uvicorn loggers).
ConcInit ==
  /\ pkg \in {"stdlib", "loguru"}
  /\ isatty = FALSE
  /\ lg = InitLogging
  /\ cfg = NoCfg
  /\ calls = 0
  /\ icp = 0
  /\ out = NoOut
  /\ \E par \in RotParams :
       /\ par.hook = (pkg = "stdlib")
       /\ ~par.info
       /\ rot = ConfigureFiles(pkg, par, 1, 1)
  /\ th = NoThreads /\ lock = NoLocks /\ console = <<>>
  /\ fm = NoFormat
  /\ fc = NoCalls

Goto(t, pc) == [th EXCEPT ![t].pc = pc]

Current(t) == Head(th[t].hs)

\* A thread calls logger.info(...): the record passes the levels and is to go
\* through the logger's handlers.
Start(t) ==
  /\ th[t].pc = "idle"
  /\ th[t].done < MaxEmits
  /\ \E n \in ConcLoggers(pkg) :
       th' = [th EXCEPT ![t].pc = "acquire",
                        ![t].rid = Rid(t, th[t].done + 1),
                        ![t].hs = HandlersOf(pkg, n)]
  /\ UNCHANGED <<cfgVars, rot, lock, console, fm, fc>>

\* Handler.handle / Loguru's Handler.emit: the handler's lock is taken. The
\* InterceptHandler keeps its lock while Loguru's handlers run.
Acquire(t) ==
  /\ th[t].pc = "acquire"
  /\ lock[Current(t)] = "free"
  /\ lock' = [lock EXCEPT ![Current(t)] = t]
  /\ th' = CASE Current(t)[1] = "intercept" ->
                  [th EXCEPT ![t].outer = Current(t), ![t].hs = Tail(@)]
             [] Current(t)[1] = "console" ->
                  [th EXCEPT ![t].pc = "write",
                             ![t].pending = WriteCalls(Line(th[t].rid, 2))]
             [] OTHER -> Goto(t, "check")
  /\ UNCHANGED <<cfgVars, rot, console, fm, fc>>

\* RotatingFileHandler.shouldRollover (the stream is opened when the handler
\* has none) / the rotation test of Loguru's FileSink.write.
Check(t) ==
  /\ th[t].pc = "check"
  /\ LET h == Current(t)[2]
         opened == IF rot.stream[h] = 0 THEN OpenStream(rot, h) ELSE rot
         roll == IF pkg = "stdlib" THEN ShouldRollover(opened, h, Line(th[t].rid, 2))
                 ELSE LoguruShouldRotate(opened, Line(th[t].rid, 2))
     IN  /\ rot' = opened
         /\ th' = IF roll
                  THEN Goto(t, IF pkg = "stdlib" THEN "close" ELSE "terminate")
                  ELSE [th EXCEPT ![t].pc = "write",
                                  ![t].pending = WriteCalls(Line(th[t].rid, 2))]
  /\ UNCHANGED <<cfgVars, lock, console, fm, fc>>

\* doRollover: self.stream.close().
Close(t) ==
  /\ th[t].pc = "close"
  /\ rot' = CloseStream(rot, Current(t)[2])
  /\ th' = Goto(t, IF rot.par.backup_count > 0 THEN "shift" ELSE "open")
  /\ UNCHANGED <<cfgVars, lock, console, fm, fc>>

\* doRollover: the loop over the backups.
Shift(t) ==
  /\ th[t].pc = "shift"
  /\ rot' = ShiftBackups(rot)
  /\ th' = Goto(t, "remove")
  /\ UNCHANGED <<cfgVars, lock, console, fm, fc>>

\* doRollover: app.log.1 is removed; rotate() then finds whether the log file
\* exists.
Remove(t) ==
  /\ th[t].pc = "remove"
  /\ rot' = Forget(RemoveFirstBackup(rot))
  /\ th' = [th EXCEPT ![t].pc = "rename", ![t].seen = rot.fs[0] # 0]
  /\ UNCHANGED <<cfgVars, lock, console, fm, fc>>

\* rotate(): os.rename(log file, app.log.1) when the file was seen. If another
\* handler has moved it away meanwhile, os.rename raises FileNotFoundError:
\* emit's handler reports it (handleError) and the record is not written by
\* this handler.
RenameFile(t) ==
  /\ th[t].pc = "rename"
  /\ IF th[t].seen /\ rot.fs[0] = 0
     THEN /\ th' = Goto(t, "release")
          /\ rot' = rot
     ELSE /\ th' = Goto(t, "open")
          /\ rot' = IF th[t].seen THEN Forget(RotateFile(rot)) ELSE rot
  /\ UNCHANGED <<cfgVars, lock, console, fm, fc>>

\* doRollover: self.stream = self._open().
Open(t) ==
  /\ th[t].pc = "open"
  /\ rot' = OpenStream(rot, Current(t)[2])
  /\ th' = [th EXCEPT ![t].pc = "write",
                      ![t].pending = WriteCalls(Line(th[t].rid, 2))]
  /\ UNCHANGED <<cfgVars, lock, console, fm, fc>>

\* Loguru's FileSink rotates.
Terminate(t) ==
  /\ th[t].pc = "terminate"
  /\ rot' = Forget(LoguruRotate(rot))
  /\ th' = [th EXCEPT ![t].pc = "write",
                      ![t].pending = WriteCalls(Line(th[t].rid, 2))]
  /\ UNCHANGED <<cfgVars, lock, console, fm, fc>>

\* One write call on the handler's stream: its characters reach the stream
\* together.
Write(t) ==
  /\ th[t].pc = "write"
  /\ IF Current(t)[1] = "console"
     THEN /\ console' = console \o Head(th[t].pending)
          /\ rot' = rot
     ELSE /\ rot' = WriteStream(rot, Current(t)[2], Head(th[t].pending))
          /\ console' = console
  /\ th' = [th EXCEPT ![t].pending = Tail(@),
                      ![t].pc = IF Tail(th[t].pending) = <<>> THEN "release"
                                ELSE "write"]
  /\ UNCHANGED <<cfgVars, lock, fm, fc>>

\* The handler's lock is released; after the last handler the call returns
\* (and the InterceptHandler's lock is released).
Release(t) ==
  /\ th[t].pc = "release"
  /\ IF Tail(th[t].hs) = <<>>
     THEN /\ lock' = [h \in HandlerIds |->
                        IF h \in {Current(t), th[t].outer} THEN "free" ELSE lock[h]]
          /\ th' = [th EXCEPT ![t] = [Idle EXCEPT !.done = th[t].done + 1]]
     ELSE /\ lock' = [lock EXCEPT ![Current(t)] = "free"]
          /\ th' = [th EXCEPT ![t].pc = "acquire", ![t].hs = Tail(@),
                              ![t].pending = <<>>, ![t].seen = FALSE]
  /\ UNCHANGED <<cfgVars, rot, console, fm, fc>>

ConcNext ==
  \E t \in Threads :
    \/ Start(t) \/ Acquire(t) \/ Check(t) \/ Close(t) \/ Shift(t) \/ Remove(t)
    \/ RenameFile(t) \/ Open(t) \/ Terminate(t) \/ Write(t) \/ Release(t)

SpecConc == ConcInit /\ [][ConcNext]_vars


\* ------------------------------------------------------------------ formatter

\* A record as a logger makes it (its level name uncoloured), which
\* logging.Formatter.format either formats or raises on (msg % args failing).
FmtInit ==
  /\ pkg = "stdlib"
  /\ isatty \in BOOLEAN
  /\ lg = InitLogging
  /\ cfg = NoCfg
  /\ calls = 0
  /\ icp = 0
  /\ out = NoOut
  /\ rot = NoRot
  /\ th = NoThreads /\ lock = NoLocks /\ console = <<>>
  /\ \E name \in LevelNames \cup {OtherLevelname}, fails \in BOOLEAN :
       fm = [NoFormat EXCEPT !.record = [levelname |-> Plain(name), fails |-> fails]]
  /\ fc = NoCalls

FmtUnchanged == UNCHANGED <<pkg, lg, cfg, calls, icp, out, rot, th, lock, console, fc>>

\* A handler calls formatter.format(record).
FmtCall ==
  /\ fm.pc = "idle"
  /\ Len(fm.outs) < MaxFormats
  /\ fm' = [fm EXCEPT !.pc = "read", !.before = fm.record.levelname]
  /\ UNCHANGED isatty /\ FmtUnchanged

\* Lines 45-46.
FmtRead ==
  /\ fm.pc = "read"
  /\ fm' = [fm EXCEPT !.pc = "color", !.levelname = fm.record.levelname,
                      !.colored = fm.record.levelname]
  /\ UNCHANGED isatty /\ FmtUnchanged

\* Lines 49-51.
FmtColor ==
  /\ fm.pc = "color"
  /\ fm' = [fm EXCEPT !.pc = "store",
                      !.colored = ColoredLevelname(fm.levelname, isatty)]
  /\ UNCHANGED isatty /\ FmtUnchanged

\* Lines 54-55.
FmtStore ==
  /\ fm.pc = "store"
  /\ fm' = [fm EXCEPT !.pc = "super", !.original = fm.record.levelname,
                      !.record.levelname = fm.colored]
  /\ UNCHANGED isatty /\ FmtUnchanged

\* Line 58: super().format(record) returns the line, or raises and format
\* is left at once.
FmtSuper ==
  /\ fm.pc = "super"
  /\ fm' = IF fm.record.fails
           THEN [fm EXCEPT !.pc = "idle", !.last = "raised"]
           ELSE [fm EXCEPT !.pc = "restore", !.formatted = SuperFormat(fm.record)]
  /\ UNCHANGED isatty /\ FmtUnchanged

\* Line 61.
FmtRestore ==
  /\ fm.pc = "restore"
  /\ fm' = [fm EXCEPT !.pc = "return",
                      !.record = RestoreLevelname(fm.record, fm.original)]
  /\ UNCHANGED isatty /\ FmtUnchanged

\* Line 63: the call returns; the returned line is noted with the terminal
\* state it was made in.
FmtReturn ==
  /\ fm.pc = "return"
  /\ fm' = [fm EXCEPT !.pc = "idle", !.last = "returned",
                      !.outs = Append(@, [line |-> fm.formatted, tty |-> isatty])]
  /\ UNCHANGED isatty /\ FmtUnchanged

\* Between two calls stdout becomes, or stops being, a terminal.
FmtSetTty ==
  /\ fm.pc = "idle"
  /\ isatty' = ~isatty
  /\ UNCHANGED fm /\ FmtUnchanged

FmtNext ==
  \/ FmtCall \/ FmtRead \/ FmtColor \/ FmtStore \/ FmtSuper \/ FmtRestore
  \/ FmtReturn \/ FmtSetTty

SpecFmt == FmtInit /\ [][FmtNext]_vars


\* ------------------------------------------------------------------ formatter, two threads

\* One record, made with an uncoloured level name, handed to two threads
\* that each call formatter.format(record) once (the formatter
\* configure_logging creates is shared by all its handlers).
FcInit ==
  /\ pkg = "stdlib"
  /\ isatty \in BOOLEAN
  /\ lg = InitLogging
  /\ cfg = NoCfg
  /\ calls = 0
  /\ icp = 0
  /\ out = NoOut
  /\ rot = NoRot
  /\ th = NoThreads /\ lock = NoLocks /\ console = <<>>
  /\ fm = NoFormat
  /\ \E name \in LevelNames \cup {OtherLevelname} :
       fc = [NoCalls EXCEPT !.record.levelname = Plain(name),
                            !.initial = Plain(name)]

FcUnchanged == UNCHANGED <<cfgVars, rot, th, lock, console, fm>>

\* Thread t calls format(record).
FcCall(t) ==
  /\ fc.call[t].pc = "idle"
  /\ ~fc.call[t].returned
  /\ fc' = [fc EXCEPT !.call[t].pc = "read"]
  /\ FcUnchanged

\* Lines 45-46.
FcRead(t) ==
  /\ fc.call[t].pc = "read"
  /\ fc' = [fc EXCEPT !.call[t].pc = "color",
                      !.call[t].levelname = fc.record.levelname,
                      !.call[t].colored = fc.record.levelname]
  /\ FcUnchanged

\* Lines 49-51.
FcColor(t) ==
  /\ fc.call[t].pc = "color"
  /\ fc' = [fc EXCEPT !.call[t].pc = "store",
                      !.call[t].colored = ColoredLevelname(fc.call[t].levelname, isatty)]
  /\ FcUnchanged

\* Line 54.
FcStore(t) ==
  /\ fc.call[t].pc = "store"
  /\ fc' = [fc EXCEPT !.call[t].pc = "set",
                      !.call[t].original = fc.record.levelname]
  /\ FcUnchanged

\* Line 55.
FcSet(t) ==
  /\ fc.call[t].pc = "set"
  /\ fc' = [fc EXCEPT !.call[t].pc = "super",
                      !.record.levelname = fc.call[t].colored]
  /\ FcUnchanged

\* Line 58.
FcSuper(t) ==
  /\ fc.call[t].pc = "super"
  /\ fc' = [fc EXCEPT !.call[t].pc = "restore",
                      !.call[t].formatted = SuperFormat(fc.record)]
  /\ FcUnchanged

\* Line 61.
FcRestore(t) ==
  /\ fc.call[t].pc = "restore"
  /\ fc' = [fc EXCEPT !.call[t].pc = "return",
                      !.record = RestoreLevelname(fc.record, fc.call[t].original)]
  /\ FcUnchanged

\* Line 63.
FcReturn(t) ==
  /\ fc.call[t].pc = "return"
  /\ fc' = [fc EXCEPT !.call[t].pc = "idle", !.call[t].returned = TRUE]
  /\ FcUnchanged

FcNext ==
  \E t \in Threads :
    \/ FcCall(t) \/ FcRead(t) \/ FcColor(t) \/ FcStore(t) \/ FcSet(t)
    \/ FcSuper(t) \/ FcRestore(t) \/ FcReturn(t)

SpecFc == FcInit /\ [][FcNext]_vars


\* ------------------------------------------------------------------ claims

Passes(level, floor) == LevelNo(level) >= floor

\* The numbers of lines one emission wrote, per destination.
Counts(o) == <<Len(o.console), Len(o.file), o.stderr>>

\* The logging state one configure_logging call with the latest call's
\* arguments leaves in a fresh process.
OneCall == ConfigureLogging(pkg, InitLogging, cfg).st

\* What the latest emission would have written in the state st.
Replay(st) ==
  IF out.by = "get_logger" THEN GetLoggerEmit(pkg, st, isatty, out.name, out.level)
  ELSE StdEmit(st, isatty, out.name, out.level)

Names(additional) == {additional[i].name : i \in 1..Len(additional)}

\* C1 (as stated): after configure_logging with minimum level L, a record at
\* level L' emitted through a logger obtained from get_logger writes no
\* console line when L' < L and exactly one when L' >= L.
C1_AnyLoggerFiltersAtLevel ==
  (out.by = "get_logger" /\ cfg.ok) =>
    Len(out.console) = IF Passes(out.level, LevelNo(cfg.level)) THEN 1 ELSE 0

\* C1 (amended): the same, for every logger obtained from get_logger other
\* than the three uvicorn loggers of the logging package, which carry a level
\* and handlers of their own.
C1_LevelFilter ==
  (out.by = "get_logger" /\ cfg.ok /\ ~(pkg = "stdlib" /\ out.name \in UvicornNames)) =>
    Len(out.console) = IF Passes(out.level, LevelNo(cfg.level)) THEN 1 ELSE 0

C1_Witness ==
  /\ out.by = "get_logger" /\ cfg.ok /\ out.name = "app"
  /\ cfg.level = "WARNING" /\ out.level = "ERROR"
  /\ Len(out.console) = 1

ConfiguredByLatest ==
  IF pkg = "stdlib" THEN out.name \notin UvicornNames \/ cfg.hook
  ELSE \/ out.by = "get_logger"
       \/ cfg.hook /\ out.name \in UvicornNames \cup {"app"} \cup Names(cfg.additional)

AtMostOnePerKind(hs) ==
  \A i, j \in 1..Len(hs) : hs[i].kind = hs[j].kind => i = j

Intercepted(n) ==
  /\ pkg = "loguru"
  /\ lg.handlers[n] = <<InterceptHandler>>
  /\ ~lg.propagate[n]

UvicornConfigured(n) ==
  /\ pkg = "stdlib"
  /\ n \in UvicornNames
  /\ lg.handlers[n] # <<>>
  /\ ~lg.propagate[n]

OnIntercepted ==
  /\ Emitted /\ cfg.ok /\ out.name # "root"
  /\ Intercepted(out.name) \/ UvicornConfigured(out.name)
  /\ Passes(out.level, lg.level[out.name])

\* C3 (as stated): a record emitted on an intercepted logger that passes the
\* logger's level is output exactly once.
C3_OutputExactlyOnce ==
  OnIntercepted => Len(out.console) = 1

\* C3 (amended): after a setup with interception every uvicorn logger and
\* every logger of additional_loggers has propagation disabled and exactly
\* one intercepting handler; a record that passes such a logger's level is
\* handed on exactly once, and written once to the console when it also
\* passes the console sink's level (the global level), and not otherwise.
C3_HandedOnOnce ==
  /\ (pkg = "loguru" /\ cfg.ok /\ cfg.hook) =>
       \A n \in UvicornNames \cup Names(cfg.additional) : Intercepted(n)
  /\ OnIntercepted =>
       /\ Len(out.console) =
            IF pkg = "stdlib" \/ Passes(out.level, LevelNo(cfg.level)) THEN 1 ELSE 0
       /\ Len(out.file) <= 1
       /\ out.stderr = 0

C3_Witness ==
  /\ OnIntercepted /\ pkg = "loguru" /\ cfg.later
  /\ out.name = "test_logger" /\ out.level = "INFO"
  /\ Len(out.console) = 1

DefaultPolicy ==
  /\ cfg.ok /\ cfg.hook /\ ~cfg.later
  /\ cfg.level = "INFO"
  /\ "uvicorn.access" \notin Names(cfg.additional)

\* C4: after configure_logging with the default policy, a record on the
\* standard-library logger uvicorn.access writes no console line at INFO and
\* one console line at ERROR.
C4_AccessFloor ==
  (Emitted /\ DefaultPolicy /\ out.name = "uvicorn.access"
     /\ out.by = (IF pkg = "stdlib" THEN "get_logger" ELSE "external")) =>
    /\ out.level = "INFO" => out.console = <<>>
    /\ out.level = "ERROR" => Len(out.console) = 1

C4_Witness ==
  /\ Emitted /\ DefaultPolicy /\ out.name = "uvicorn.access"
  /\ out.by = (IF pkg = "stdlib" THEN "get_logger" ELSE "external")
  /\ out.level = "ERROR" /\ Len(out.console) = 1

\* C6: a line written to the file sink never holds colour or escape codes.
C6_FileLinesPlain ==
  \A i \in 1..Len(out.file) : ~out.file[i].ansi

\* C7: when standard output is not a terminal no console line holds colour or
\* escape codes, whatever the colorize argument.
C7_NoColorOffTerminal ==
  ~isatty => \A i \in 1..Len(out.console) : ~out.console[i].ansi

\* C8: a setup given an unknown level name, as the global level or as the
\* level of an additional_loggers entry it configures, fails.
C8_UnknownLevelFails ==
  (calls >= 1 /\ ~cfg.later
     /\ \/ cfg.level = BadLevel
        \/ cfg.hook /\ \E i \in 1..Len(cfg.additional) : cfg.additional[i].level = BadLevel)
  => ~cfg.ok

\* The backup slots in use.
Backups(rs) == {i \in Slots \ {0} : rs.fs[i] # 0}

\* The step from rs to next is a rotation: the file that was the log file is
\* now backup 1, every older backup that fits moved up one slot, and the log
\* file is a new file that holds only the record just written.
Rotated(rs, next) ==
  /\ rs.par.backup_count >= 1 => next.fs[1] = rs.fs[0]
  /\ \A i \in 1..(rs.par.backup_count - 1) : next.fs[i + 1] = rs.fs[i]
  /\ next.fs[0] = Len(rs.data) + 1
  /\ Len(next.data) = Len(rs.data) + 1
  /\ Len(next.data[next.fs[0]]) \in 1..MaxLineLen

C5_State ==
  rot.phase = "ready" =>
    /\ Cardinality(Backups(rot)) <= rot.par.backup_count
    /\ rot.rotations >= rot.par.backup_count + 1 =>
         /\ Cardinality(Backups(rot)) = rot.par.backup_count
         /\ \A i \in Slots : rot.fs[i] # 1

C5_Step ==
  (rot.phase = "ready" /\ rot'.rotations = rot.rotations + 1) => Rotated(rot, rot')

\* C5: with a file sink configured with max_bytes and backup_count, after any
\* sequence of record writes (through the root logger and the uvicorn loggers
\* that share the log file) at most backup_count backups exist; each rotation
\* moves the log file to backup slot 1 and shifts the older backups up; once
\* backup_count + 1 rotations have happened exactly backup_count backups
\* exist and the first file is gone.
C5_Rotation == [](C5_State) /\ [][C5_Step]_vars

C5_Witness ==
  /\ pkg = "stdlib" /\ rot.phase = "ready" /\ rot.par.hook
  /\ rot.par.backup_count = 2 /\ rot.rotations = 3
  /\ Cardinality(Backups(rot)) = 2
  /\ rot.stream["uvicorn"] # rot.stream["root"]

\* A thread is between the write calls of record rid's line.
Writing(rid) ==
  \E t \in Threads :
    th[t].rid = rid /\ th[t].pc = "write" /\ th[t].pending # <<>>

\* Every line of c holds one record: the text of a record is followed by that
\* record's terminator (or is still being written), and every terminator
\* ends the text of its own record.
WholeLines(c) ==
  \A i \in 1..Len(c) :
    /\ c[i].part = "msg" =>
         IF i < Len(c) THEN c[i + 1] = [rid |-> c[i].rid, part |-> "nl"]
         ELSE Writing(c[i].rid)
    /\ c[i].part = "nl" =>
         i > 1 /\ c[i - 1] = [rid |-> c[i].rid, part |-> "msg"]

\* The lines of record rid in c.
LinesOf(c, rid) == Cardinality({i \in 1..Len(c) : c[i] = [rid |-> rid, part |-> "nl"]})

RECURSIVE FileLinesOf(_, _)
FileLinesOf(f, rid) ==
  IF f = 0 THEN 0 ELSE LinesOf(rot.data[f], rid) + FileLinesOf(f - 1, rid)

C10_FormatRestores ==
  /\ (fm.pc = "idle" /\ fm.last = "returned") => fm.record.levelname = fm.before
  /\ \A i \in 1..(Len(fm.outs) - 1) :
       fm.outs[i].tty = fm.outs[i + 1].tty => fm.outs[i].line = fm.outs[i + 1].line

\* A record of a coloured level has been formatted twice in succession on a
\* terminal, coloured, and both calls have returned.
C10_Witness ==
  /\ fm.pc = "idle" /\ fm.last = "returned"
  /\ Len(fm.outs) >= 2
  /\ fm.outs[1].tty /\ fm.outs[2].tty
  /\ fm.outs[2].line.ansi
  /\ fm.record.levelname.name \in ColorKeys

\* The line a format call on the record returns when it runs alone.
SequentialLine == ColoredLevelname(fc.initial, isatty)

\* C11: in every interleaving of two format calls on one record, each call
\* that has returned returned the line a call running alone returns, and
\* once both have returned record.levelname is the original, uncoloured one.
C11_ConcurrentFormatSafe ==
  /\ \A t \in Threads :
       fc.call[t].returned => fc.call[t].formatted = SequentialLine
  /\ (\A t \in Threads : fc.call[t].returned) => fc.record.levelname = fc.initial

====
